---------------------------- MODULE Spec2Model ----------------------------
(***************************************************************************)
(* Burn-mapping change-detection pipeline (ANU-WALD/burn-mapping,          *)
(* notebooks/handover): the per-pixel severity scorer of                   *)
(* burnmappingtoolbox.py, the chunked worker pool of BurnCube.py and the   *)
(* severitymapping / region_growing methods of the BurnCube class.         *)
(*                                                                         *)
(* Numbers.  Distances, NBR values and thresholds are floats in the code;  *)
(* the model draws them from small sets of integers (a fixed-point scale)  *)
(* plus NaN.  Every float comparison of the code is modelled by Gt / Lt,   *)
(* which are FALSE as soon as one side is NaN, as IEEE comparisons are.    *)
(* Timestamps are whole day numbers >= 1, strictly ascending; the area     *)
(* accumulated by severity is kept in half units (2 x sevindex) so that    *)
(* 0.5 * y1_y0 * t1_t0 stays an integer.                                   *)
(***************************************************************************)
EXTENDS Integers, Sequences, FiniteSets, TLC

\* ------------------------------------------------------------------ bounds
MaxT == 4          \* longest pixel series handed to severity
MaxN == 5          \* largest number of pixels handed to a worker pool
MaxProcs == 4      \* largest parallelism factor n_procs
MaxCpu == 2        \* worker processes of mp.Pool() (os.cpu_count())
MaxObs == 3        \* most dates of a pixel handed to geometric_median
MaxIter == 3       \* largest max-iteration count
Res == 8           \* fixed-point resolution: floats in units of 1 / Res
MaxFaults == 1     \* most exceptions raised inside the workers of one stage
MaxPix == 2        \* most pixels of a band cube

\* ------------------------------------------------------------ float values
\* np.nan: a value outside every value set of the model.
NaN == -1000

IsNaN(v) == v = NaN

\* a > b on floats: False when either side is NaN.
Gt(a, b) == ~IsNaN(a) /\ ~IsNaN(b) /\ a > b

\* a < b on floats: False when either side is NaN.
Lt(a, b) == ~IsNaN(a) /\ ~IsNaN(b) /\ a < b

\* ---------------------------------------------------------------- helpers
Min(a, b) == IF a < b THEN a ELSE b

MinOf(S) == CHOOSE m \in S : \A o \in S : m <= o

MaxOf(S) == CHOOSE m \in S : \A o \in S : m >= o

\* np.where(mask)[0]: the indices of a set, ascending, as a sequence.
RECURSIVE Where(_)
Where(S) ==
    IF S = {} THEN << >>
    ELSE LET m == MinOf(S) IN << m >> \o Where(S \ {m})

\* a[ind]: fancy indexing of a sequence by a sequence of indices.
Take(a, ind) == [k \in 1..Len(ind) |-> a[ind[k]]]

\* the values of a sequence, as a set.
Range(s) == {s[k] : k \in 1..Len(s)}

\* ------------------------------------------- burnmappingtoolbox.severity
\* The outlier rule with the cosine distance compared by >= instead of >.
OutlierRuleOnLine(Method, c, nbr, nd, s, CDistoutlier, NBRoutlier) ==
    LET ge == ~IsNaN(c) /\ ~IsNaN(CDistoutlier) /\ c >= CDistoutlier
    IN CASE Method = 1 -> ge
         [] Method = 2 -> ge /\ Lt(nbr, 0)
         [] Method = 3 -> ge /\ Gt(nd, NBRoutlier) /\ s = 1

\* The outlier rule of one valid observation under Method 1, 2 or 3
\* (cosine only; cosine and NBR < 0; cosine, NBR distance and direction).
OutlierRule(Method, c, nbr, nd, s, CDistoutlier, NBRoutlier) ==
    CASE Method = 1 -> Gt(c, CDistoutlier)
      [] Method = 2 -> Gt(c, CDistoutlier) /\ Lt(nbr, 0)
      [] Method = 3 -> Gt(c, CDistoutlier) /\ Gt(nd, NBRoutlier) /\ s = 1

\* SeverityLoop without the test "next day have to be outlier": every outlier
\* is paired with the valid observation after it.
RECURSIVE SeverityLoopAnyNext(_, _, _, _, _, _, _)
SeverityLoopAnyNext(ii, Nout, time, cosdist, outlierind, CDistoutlier, acc) ==
    IF ii > Nout THEN acc
    ELSE
      LET hasnext == outlierind[ii] + 1 <= Len(time)
          t1_t0 == time[outlierind[ii] + 1] - time[outlierind[ii]]
          y1_y0 == (cosdist[outlierind[ii] + 1] + cosdist[outlierind[ii]])
                      - 2 * CDistoutlier
          next == IF hasnext
                  THEN [AreaAboveD0 |-> acc.AreaAboveD0 + y1_y0 * t1_t0,
                        duration    |-> acc.duration + t1_t0,
                        tt          |-> Append(acc.tt, ii)]
                  ELSE acc
      IN SeverityLoopAnyNext(ii + 1, Nout, time, cosdist, outlierind,
                             CDistoutlier, next)

\* SeverityLoop pairing every outlier with the outlier after it, whatever
\* lies between the two.
RECURSIVE SeverityLoopNextOutlier(_, _, _, _, _, _, _)
SeverityLoopNextOutlier(ii, Nout, time, cosdist, outlierind, CDistoutlier, acc) ==
    IF ii >= Nout THEN acc
    ELSE
      LET t1_t0 == time[outlierind[ii + 1]] - time[outlierind[ii]]
          y1_y0 == (cosdist[outlierind[ii + 1]] + cosdist[outlierind[ii]])
                      - 2 * CDistoutlier
      IN SeverityLoopNextOutlier(ii + 1, Nout, time, cosdist, outlierind,
                                 CDistoutlier,
                                 [AreaAboveD0 |-> acc.AreaAboveD0 + y1_y0 * t1_t0,
                                  duration    |-> acc.duration + t1_t0,
                                  tt          |-> Append(acc.tt, ii)])

\* SeverityLoop counting one day per linked pair instead of its day gap.
RECURSIVE SeverityLoopCountPairs(_, _, _, _, _, _, _)
SeverityLoopCountPairs(ii, Nout, time, cosdist, outlierind, CDistoutlier, acc) ==
    IF ii > Nout THEN acc
    ELSE
      LET outlierdates == Take(time, outlierind)
          hasnext == outlierind[ii] + 1 <= Len(time)
          u == IF hasnext
               THEN {k \in 1..Len(outlierdates) :
                        time[outlierind[ii] + 1] = outlierdates[k]}
               ELSE {}
          t1_t0 == time[outlierind[ii] + 1] - time[outlierind[ii]]
          y1_y0 == (cosdist[outlierind[ii] + 1] + cosdist[outlierind[ii]])
                      - 2 * CDistoutlier
          next == IF hasnext /\ u # {}
                  THEN [AreaAboveD0 |-> acc.AreaAboveD0 + y1_y0 * t1_t0,
                        duration    |-> acc.duration + 1,
                        tt          |-> Append(acc.tt, ii)]
                  ELSE acc
      IN SeverityLoopCountPairs(ii + 1, Nout, time, cosdist, outlierind,
                                CDistoutlier, next)

\* The loop "for ii in range(0,Nout)": acc carries AreaAboveD0 (in half
\* units), duration and tt, the list of the ii at which a change is recorded.
RECURSIVE SeverityLoop(_, _, _, _, _, _, _)
SeverityLoop(ii, Nout, time, cosdist, outlierind, CDistoutlier, acc) ==
    IF ii > Nout THEN acc
    ELSE
      LET outlierdates == Take(time, outlierind)
          hasnext == outlierind[ii] + 1 <= Len(time)
          u == IF hasnext
               THEN {k \in 1..Len(outlierdates) :
                        time[outlierind[ii] + 1] = outlierdates[k]}
               ELSE {}
          t1_t0 == time[outlierind[ii] + 1] - time[outlierind[ii]]
          y1_y0 == (cosdist[outlierind[ii] + 1] + cosdist[outlierind[ii]])
                      - 2 * CDistoutlier
          next == IF hasnext /\ u # {}
                  THEN [AreaAboveD0 |-> acc.AreaAboveD0 + y1_y0 * t1_t0,
                        duration    |-> acc.duration + t1_t0,
                        tt          |-> Append(acc.tt, ii)]
                  ELSE acc
      IN SeverityLoop(ii + 1, Nout, time, cosdist, outlierind, CDistoutlier, next)

\* severity recording the date of the first outlier instead of the first
\* outlier of the first linked pair.
severityFirstOutlier(CDist, CDistoutlier, Time, NBR, NBRDist, NBRoutlier, Sign, Method) ==
    LET notnanind == Where({k \in 1..Len(CDist) : ~IsNaN(CDist[k])})
        cosdist == Take(CDist, notnanind)
        outlierind ==
            Where({k \in 1..Len(cosdist) :
                     OutlierRule(Method, cosdist[k], NBR[notnanind[k]],
                                 NBRDist[notnanind[k]], Sign[notnanind[k]],
                                 CDistoutlier, NBRoutlier)})
        time == Take(Time, notnanind)
        Nout == Len(outlierind)
        zero == [AreaAboveD0 |-> 0, duration |-> 0, tt |-> << >>]
        loop == IF Nout >= 2
                THEN SeverityLoop(1, Nout, time, cosdist, outlierind,
                                  CDistoutlier, zero)
                ELSE zero
    IN IF Len(loop.tt) > 0
       THEN [sevindex  |-> loop.AreaAboveD0,
             startdate |-> time[outlierind[1]],
             duration  |-> loop.duration]
       ELSE [sevindex |-> 0, startdate |-> 0, duration |-> loop.duration]

\* severity(CDist,CDistoutlier,Time,NBR,NBRDist,NBRoutlier,Sign,Method):
\* the triple (sevindex, startdate, duration); sevindex in half units,
\* startdate 0 when no change is recorded.
severity(CDist, CDistoutlier, Time, NBR, NBRDist, NBRoutlier, Sign, Method) ==
    LET notnanind == Where({k \in 1..Len(CDist) : ~IsNaN(CDist[k])})
        cosdist == Take(CDist, notnanind)
        outlierind ==
            Where({k \in 1..Len(cosdist) :
                     OutlierRule(Method, cosdist[k], NBR[notnanind[k]],
                                 NBRDist[notnanind[k]], Sign[notnanind[k]],
                                 CDistoutlier, NBRoutlier)})
        time == Take(Time, notnanind)
        Nout == Len(outlierind)
        zero == [AreaAboveD0 |-> 0, duration |-> 0, tt |-> << >>]
        loop == IF Nout >= 2
                THEN SeverityLoop(1, Nout, time, cosdist, outlierind,
                                  CDistoutlier, zero)
                ELSE zero
    IN IF Len(loop.tt) > 0
       THEN [sevindex  |-> loop.AreaAboveD0,
             startdate |-> time[outlierind[loop.tt[1]]],
             duration  |-> loop.duration]
       ELSE [sevindex |-> 0, startdate |-> 0, duration |-> loop.duration]

\* ---------------------------------------------- inputs of a severity call
\* One time step of a pixel: cosine distance c, NBR nbr, NBR distance nd and
\* direction s.  Against thresholds of 2: no observation; a stable
\* observation; one exactly on both lines (no outlier: the comparisons are
\* strict); an outlier under every method; under 1 and 2 only (NBR distance
\* low); under 1 and 3 only (NBR positive).
ObsNone == [c |-> NaN, nbr |-> NaN, nd |-> NaN, s |-> 0]

ObsStable == [c |-> 1, nbr |-> 1, nd |-> 1, s |-> 0]

ObsOnLine == [c |-> 2, nbr |-> 1, nd |-> 2, s |-> 0]

ObsDrop == [c |-> 3, nbr |-> -1, nd |-> 3, s |-> 1]

ObsB == [c |-> 4, nbr |-> -1, nd |-> 1, s |-> 1]

ObsC == [c |-> 3, nbr |-> 1, nd |-> 3, s |-> 1]

ObsSet == {ObsNone, ObsOnLine, ObsDrop, ObsB, ObsC}

\* The thresholds of the calls.
ThresholdSet == {2}

\* The gaps, in days, between two consecutive time steps.
GapSet == {1, 3}

\* Time axes of T steps: day numbers from 1, strictly ascending.
RECURSIVE TimeAxes(_)
TimeAxes(T) ==
    IF T = 1 THEN { << 1 >> }
    ELSE { Append(a, a[T - 1] + g) : a \in TimeAxes(T - 1), g \in GapSet }

Series(T) == [1..T -> ObsSet]

Column(obs, f) == [k \in 1..Len(obs) |-> obs[k][f]]

NoReturn == [sevindex |-> NaN, startdate |-> NaN, duration |-> NaN]

\* ------------------------------------------------- the chunked worker pool
\* chunk = n // n_procs
Chunk(n, n_procs) == n \div n_procs

\* range(0, n, chunk) for chunk > 0 (Python raises ValueError for chunk = 0).
ChunkStarts(n, chunk) == {i \in 0..(n - 1) : i % chunk = 0}

\* The task list with one chunk per full multiple of chunk, the last one
\* running to n: the remainder is absorbed by the final chunk.
ChunkListAbsorbing(n, chunk) ==
    LET starts == {i \in 0..(n - 1) : i % chunk = 0 /\ i + chunk <= n}
    IN {[lo |-> i, hi |-> IF i + 2 * chunk > n THEN n ELSE i + chunk] :
           i \in starts}

\* [(i, min(n, i + chunk), ...) for i in range(0, n, chunk)]: the tasks, each
\* the half-open index range [lo, hi).
ChunkList(n, chunk) ==
    {[lo |-> i, hi |-> Min(n, i + chunk)] : i \in ChunkStarts(n, chunk)}

\* The stages that run a pool, and the pixel counts each can hand to it:
\* the whole grid for hdgeomedian and distances, the non-empty list of
\* outlier pixels for severitymapping.
Stages == {"hdgeomedian", "distances", "severitymapping"}

PixelCounts(st) == IF st = "severitymapping" THEN 1..MaxN ELSE 0..MaxN

\* ----------------------------------------------------------------- scenes
\* The state of a BurnCube object after distances() and outliers(): the
\* distance grids [time, pixel] of self.dists (pixel = y * nx + x, the
\* flattened index of reshape) and the threshold grids of self.outlrs.
\* The time axis: step k is day 1, 2, 4, 7, 11, ... so that every gap differs.
DayOfStep(k) == 1 + (k * (k - 1)) \div 2

\* The observation of a pixel of a given kind at time step k.
PixelObs(kind, k) ==
    CASE kind.name = "invalid" -> ObsNone
      [] kind.name = "stable"  -> ObsStable
      [] kind.name = "single"  -> IF k = kind.onset THEN ObsDrop ELSE ObsStable
      [] kind.name = "drop"    ->
            IF k \in {kind.onset, kind.onset + 1} THEN ObsDrop ELSE ObsStable
      [] kind.name = "gapdrop" ->
            IF k \in {kind.onset, kind.onset + 2} THEN ObsDrop
            ELSE IF k = kind.onset + 1 THEN ObsNone ELSE ObsStable
      [] kind.name = "twice"   ->
            IF k \in {kind.onset, kind.onset + 2} THEN ObsDrop ELSE ObsStable
      [] kind.name = "pairB"   ->
            IF k \in {kind.onset, kind.onset + 1} THEN ObsB ELSE ObsStable
      [] kind.name = "pairC"   ->
            IF k \in {kind.onset, kind.onset + 1} THEN ObsC ELSE ObsStable

Kind(name, onset) == [name |-> name, onset |-> onset]

\* The kinds of pixel of the small scenes.
KindSet ==
    { Kind("invalid", 0), Kind("stable", 0), Kind("single", 2),
      Kind("drop", 1), Kind("drop", 2), Kind("gapdrop", 1),
      Kind("pairB", 2), Kind("pairC", 2) }

\* Small scenes: 1 x 3 pixels, 4 time steps, every pixel of any kind.
SmallScenes ==
    { [ny |-> 1, nx |-> 3, nt |-> 4, kinds |-> ks] : ks \in [0..2 -> KindSet] }

\* The end-to-end scenario: 3 x 3 pixels, 10 time steps, one pixel q with a
\* drop at two consecutive steps, every other pixel stable.
ScenarioScenes ==
    { [ny |-> 3, nx |-> 3, nt |-> 10,
       kinds |-> [p \in 0..8 |-> IF p = q THEN Kind("drop", k)
                                 ELSE Kind("stable", 0)]] :
        q \in 0..8, k \in 1..9 }

\* Scenes with two fire dates: 1 x 5 pixels, 5 time steps, a drop at steps
\* 2, 3 at the first pixel and at steps 4, 5 at the last, and pixels between
\* them that are stable or drop at one or both of the dates without a
\* sustained change.
BetweenKinds(p) ==
    CASE p = 1 -> { Kind("stable", 0), Kind("single", 2), Kind("single", 4),
                    Kind("twice", 2) }
      [] p = 2 -> { Kind("stable", 0), Kind("single", 4) }
      [] p = 3 -> { Kind("stable", 0), Kind("single", 2) }

TwoFireScenes ==
    { [ny |-> 1, nx |-> 5, nt |-> 5,
       kinds |-> [p \in 0..4 |-> IF p = 0 THEN Kind("drop", 2)
                                 ELSE IF p = 4 THEN Kind("drop", 4)
                                 ELSE ks[p]]] :
        ks \in {f \in [1..3 -> KindSet \cup BetweenKinds(1)] :
                   \A p \in 1..3 : f[p] \in BetweenKinds(p)} }

Scenes == SmallScenes \cup ScenarioScenes \cup TwoFireScenes

\* self.dists of a scene.
DistsOf(sc) ==
    [ny |-> sc.ny, nx |-> sc.nx,
     time |-> [k \in 1..sc.nt |-> DayOfStep(k)],
     obs |-> [p \in 0..(sc.ny * sc.nx - 1) |->
                [k \in 1..sc.nt |-> PixelObs(sc.kinds[p], k)]]]

\* self.outlrs of a scene: the threshold 2 at every pixel; NaN when the
\* scene has no valid distance at all.
OutlrsOf(sc) ==
    LET thr == IF \A p \in DOMAIN sc.kinds : sc.kinds[p].name = "invalid"
               THEN NaN ELSE 2
    IN [CDistoutlier |-> [p \in 0..(sc.ny * sc.nx - 1) |-> thr],
        NBRoutlier   |-> [p \in 0..(sc.ny * sc.nx - 1) |-> thr]]

CubeOf(sc) == [dists |-> DistsOf(sc), outlrs |-> OutlrsOf(sc)]

NPix(c) == c.dists.ny * c.dists.nx

Pixels(c) == 0..(NPix(c) - 1)

Steps(c) == 1..Len(c.dists.time)

\* ----------------------------------------------- BurnCube.severitymapping
\* The values the method argument is given: the two names the code knows
\* and one that stands for every other value.
MethodSet == {"NBR", "NBRdist", "cosdist"}

\* def severitymapping(self, period, n_procs=4, method='NBR', growing=True)
DefaultNProcs == 4

DefaultMethod == "NBR"

DefaultGrowing == TRUE

\* Recognised with the final else branch taken for no value: an unknown name
\* falls into the last branch instead of raising.
RecognisedAll(method) == TRUE

\* if method == 'NBR' ... elif method == 'NBRdist' ... else: raise ValueError
Recognised(method) == method \in {"NBR", "NBRdist"}

\* The mask of the pre-filter at one (time, pixel), for a recognised method:
\* the 'NBR' branch, else the 'NBRdist' branch.
PreFilterCond(method, o, CDistoutlier, NBRoutlier) ==
    IF method = "NBR"
    THEN Gt(o.c, CDistoutlier) /\ Lt(o.nbr, 0)
    ELSE Gt(o.c, CDistoutlier) /\ Gt(o.nd, NBRoutlier) /\ o.s = 1

\* cosdist.where(mask).sum(axis=0): the sum over time of the masked cosine
\* distances of pixel p (NaN and masked-out values are skipped).
RECURSIVE PreFilterSum(_, _, _, _)
PreFilterSum(c, method, p, k) ==
    IF k = 0 THEN 0
    ELSE LET o == c.dists.obs[p][k]
             keep == /\ PreFilterCond(method, o, c.outlrs.CDistoutlier[p],
                                      c.outlrs.NBRoutlier[p])
                     /\ ~IsNaN(o.c)
         IN (IF keep THEN o.c ELSE 0) + PreFilterSum(c, method, p, k - 1)

\* PreFilter with tmp >= 0 for tmp > 0.
PreFilterGe(c, method) ==
    Where({p \in Pixels(c) :
             PreFilterSum(c, method, p, Len(c.dists.time)) >= 0})

\* outlierind = np.where(tmp > 0)[0]
PreFilter(c, method) ==
    Where({p \in Pixels(c) :
             PreFilterSum(c, method, p, Len(c.dists.time)) > 0})

\* data = self.dists.sel(time=slice(period[0], period[1])): the time steps
\* of the period, both ends included, ascending.
PeriodSteps(c, period) ==
    Where({k \in Steps(c) : period[1] <= c.dists.time[k] /\
                             c.dists.time[k] <= period[2]})

\* self.dists.<grid>.data.reshape((len(data.time), -1)) is possible: the
\* whole grid, of T * n values, splits into len(data.time) rows.
Reshapes(c, rows) ==
    rows > 0 /\ (Len(c.dists.time) * NPix(c)) % rows = 0

\* Entry [r, col] (0-based) of the whole grid reshaped to `rows` rows: the
\* value at flat index r * width + col of the [time, pixel] grid.
Reshaped(c, rows, field, r, col) ==
    LET width == (Len(c.dists.time) * NPix(c)) \div rows
        flat  == r * width + col
    IN c.dists.obs[flat % NPix(c)][flat \div NPix(c) + 1][field]

\* The shared input arrays: NBR_shared[:] = NBR[:, outlierind] and the like
\* (lines 457-475), and t[:] = data.time (lines 481-483).
SharedInputs(c, data, ind) ==
    LET rows == Len(data)
        cols(field) ==
            [i \in 0..(Len(ind) - 1) |->
               [r \in 1..rows |-> Reshaped(c, rows, field, r - 1, ind[i + 1])]]
    IN [NBR |-> cols("nbr"), NBRDist |-> cols("nd"), CosDist |-> cols("c"),
        ChangeDir |-> cols("s"), t |-> Take(c.dists.time, data)]

\* The Method of severity that a method name selects in the worker.
MethodNumber(method) == IF method = "NBR" THEN 2 ELSE 3

\* severity(...) for entry i of the shared arrays: the series of pixel
\* outlierind[i] over the period.
SeverityOf(c, ind, method, i) ==
    LET p == ind[i + 1]
        obs == c.dists.obs[p]
    IN severity(Column(obs, "c"), c.outlrs.CDistoutlier[p], c.dists.time,
                Column(obs, "nbr"), Column(obs, "nd"),
                c.outlrs.NBRoutlier[p], Column(obs, "s"),
                MethodNumber(method))

\* Position of pixel p in outlierind (0-based), or -1.
IndexIn(ind, p) ==
    IF \E i \in 1..Len(ind) : ind[i] = p
    THEN (CHOOSE i \in 1..Len(ind) : ind[i] = p) - 1
    ELSE -1

\* a[outlierind] = b on a zero grid.
Scatter(c, ind, b) ==
    [p \in Pixels(c) |-> IF IndexIn(ind, p) >= 0 THEN b[IndexIn(ind, p)] ELSE 0]

\* a[a==0] = np.nan
ZeroToNaN(a) == [p \in DOMAIN a |-> IF a[p] = 0 THEN NaN ELSE a[p]]

\* What astype('int16') makes of NaN: not defined by the cast.
NaNAsInt16 == {0, -32768}

\* burnt = np.zeros(...); burnt[duration > 1] = 1 (a NaN duration compares
\* False). First the variant that also marks a duration of one day.
BurntFromOne(c, duration) ==
    [p \in Pixels(c) |-> IF Gt(duration[p], 0) THEN 1 ELSE 0]

Burnt(c, duration) ==
    [p \in Pixels(c) |-> IF Gt(duration[p], 1) THEN 1 ELSE 0]

\* --------------------------------------------- BurnCube.region_growing
\* ti = np.where(self.dists.time > np.datetime64(str(d)[:10]))[0][0]: the
\* first time step after midnight of the day of d.  A timestamp t of the
\* model stands for day t at the overpass time, later than midnight, so that
\* is the first step with time >= d; 0 when there is none (IndexError).
TimeIndexAfter(c, d) ==
    LET K == {k \in Steps(c) : c.dists.time[k] >= d}
    IN IF K = {} THEN 0 ELSE MinOf(K)

\* (direction * dist) / outlier > z_distance, with z_distance = 2 / 3 and a
\* positive outlier threshold; False when dist or the threshold is NaN.
ScoreAbove(dir, dist, outlier) ==
    /\ ~IsNaN(dist) /\ ~IsNaN(outlier)
    /\ 3 * (dir * dist) > 2 * outlier

\* Potential at time step ti: the set of pixels where both scores are above
\* z_distance.
Potential(c, ti) ==
    {p \in Pixels(c) :
        LET o == c.dists.obs[p][ti]
        IN /\ ScoreAbove(o.s, o.nd, c.outlrs.NBRoutlier[p])
           /\ ScoreAbove(o.s, o.c, c.outlrs.CDistoutlier[p])}

\* measure.label(..., background=0) on a 2-D mask: full (8-) connectivity.
Adjacent(c, p, q) ==
    LET dy == (p \div c.dists.nx) - (q \div c.dists.nx)
        dx == (p % c.dists.nx) - (q % c.dists.nx)
    IN dy \in {-1, 0, 1} /\ dx \in {-1, 0, 1}

RECURSIVE Component(_, _, _)
Component(c, P, S) ==
    LET T == S \cup {q \in P : \E r \in S : Adjacent(c, q, r)}
    IN IF T = S THEN S ELSE Component(c, P, T)

\* The first pixel, in raster order, of every connected component of P.
Firsts(c, P) == {MinOf(Component(c, P, {p})) : p \in P}

\* all_labels: 0 off the mask, else 1, 2, ... in raster order of the
\* components.
Labels(c, P) ==
    [p \in Pixels(c) |->
        IF p \notin P THEN 0
        ELSE Cardinality({m \in Firsts(c, P) :
                             m <= MinOf(Component(c, P, {p}))})]

\* np.max(np.unique(all_labels))
MaxLabel(c, P) == Cardinality(Firsts(c, P))

\* for ri in range(1, np.max(np.unique(all_labels))):
\*     NewPotential[all_labels == ri] = np.mean(np.extract(all_labels == ri, SeedMap))
\* The mean is kept as the fraction num / den; 0 / 1 where nothing is written.
NewPotentialOf(c, P, SeedMap) ==
    LET lab == Labels(c, P)
    IN [p \in Pixels(c) |->
          IF lab[p] \in 1..(MaxLabel(c, P) - 1)
          THEN LET region == {q \in Pixels(c) : lab[q] = lab[p]}
               IN [num |-> Cardinality({q \in region : SeedMap[q] = 1}),
                   den |-> Cardinality(region)]
          ELSE [num |-> 0, den |-> 1]]

\* The sweep with the reference date itself handled as an earlier date.
RECURSIVE GrowingSweepRefIsEarlier(_, _, _, _, _, _)
GrowingSweepRefIsEarlier(c, SeedMap, ChangeDates, ii, j, acc) ==
    IF j > Len(ChangeDates) \/ acc.raised # "none" THEN acc
    ELSE
      LET d == ChangeDates[j]
          ti == TimeIndexAfter(c, d)
      IN IF ti = 0
         THEN [acc EXCEPT !.raised = "IndexError"]
         ELSE
           LET NewPotential == NewPotentialOf(c, Potential(c, ti), SeedMap)
               AnnualMap == [p \in Pixels(c) |->
                               acc.AnnualMap[p] +
                               (IF 4 * NewPotential[p].num > NewPotential[p].den
                                THEN 1 ELSE 0)]
               tmp == [p \in Pixels(c) |-> IF AnnualMap[p] > 0 THEN 1 ELSE 0]
               Startdates ==
                   [p \in Pixels(c) |->
                      IF d <= ChangeDates[ii]
                      THEN (IF tmp[p] - acc.tmpMap[p] < 0 THEN d
                            ELSE acc.Startdates[p])
                      ELSE (IF tmp[p] - acc.tmpMap[p] > 0 THEN d
                            ELSE acc.Startdates[p])]
           IN GrowingSweepRefIsEarlier(c, SeedMap, ChangeDates, ii, j + 1,
                           [AnnualMap |-> AnnualMap, Startdates |-> Startdates,
                            tmpMap |-> tmp, raised |-> "none"])

\* The loop "for d in ChangeDates" (lines 393-412); acc carries AnnualMap,
\* Startdates, tmpMap and the exception raised, if any.
RECURSIVE GrowingSweep(_, _, _, _, _, _)
GrowingSweep(c, SeedMap, ChangeDates, ii, j, acc) ==
    IF j > Len(ChangeDates) \/ acc.raised # "none" THEN acc
    ELSE
      LET d == ChangeDates[j]
          ti == TimeIndexAfter(c, d)
      IN IF ti = 0
         THEN [acc EXCEPT !.raised = "IndexError"]
         ELSE
           LET NewPotential == NewPotentialOf(c, Potential(c, ti), SeedMap)
               AnnualMap == [p \in Pixels(c) |->
                               acc.AnnualMap[p] +
                               (IF 4 * NewPotential[p].num > NewPotential[p].den
                                THEN 1 ELSE 0)]
               tmp == [p \in Pixels(c) |-> IF AnnualMap[p] > 0 THEN 1 ELSE 0]
               Startdates ==
                   [p \in Pixels(c) |->
                      IF d < ChangeDates[ii]
                      THEN (IF tmp[p] - acc.tmpMap[p] < 0 THEN d
                            ELSE acc.Startdates[p])
                      ELSE (IF tmp[p] - acc.tmpMap[p] > 0 THEN d
                            ELSE acc.Startdates[p])]
           IN GrowingSweep(c, SeedMap, ChangeDates, ii, j + 1,
                           [AnnualMap |-> AnnualMap, Startdates |-> Startdates,
                            tmpMap |-> tmp, raised |-> "none"])

\* region_growing(self, severity): BurnExtent and Startdates, or the
\* exception raised; result is the argument named severity.
region_growing(c, result) ==
    LET Start_Date == {p \in Pixels(c) : ~IsNaN(result.StartDate[p])}
        ChangeDates == Where({result.StartDate[p] : p \in Start_Date})
        sumpix == [i \in 1..Len(ChangeDates) |->
                     Cardinality({p \in Start_Date :
                                    result.StartDate[p] = ChangeDates[i]})]
        failed(e) == [raised |-> e, BurnExtent |-> << >>, Startdates |-> << >>]
    IN IF Len(ChangeDates) = 0
       THEN failed("ValueError")   \* np.max of an empty array
       ELSE
         LET ii == MinOf({i \in 1..Len(ChangeDates) :
                            sumpix[i] = MaxOf(Range(sumpix))})
             ti == TimeIndexAfter(c, ChangeDates[ii])
         IN IF ti = 0
            THEN failed("IndexError")
            ELSE
              LET SeedMap == [p \in Pixels(c) |->
                                IF result.Severe[p] > 0 THEN 1 ELSE 0]
                  NewPotential == NewPotentialOf(c, Potential(c, ti), SeedMap)
                  start == [AnnualMap  |-> [p \in Pixels(c) |-> 0],
                            Startdates |-> [p \in Pixels(c) |->
                                              IF NewPotential[p].num > 0
                                              THEN ChangeDates[ii] ELSE 0],
                            tmpMap     |-> [p \in Pixels(c) |->
                                              IF NewPotential[p].num > 0
                                              THEN 1 ELSE 0],
                            raised     |-> "none"]
                  swept == GrowingSweep(c, SeedMap, ChangeDates, ii, 1, start)
              IN IF swept.raised # "none" THEN failed(swept.raised)
                 ELSE [raised     |-> "none",
                       BurnExtent |-> [p \in Pixels(c) |->
                                         IF swept.AnnualMap[p] > 0 THEN 1 ELSE 0],
                       Startdates |-> swept.Startdates]

\* --------------------------------- burnmappingtoolbox.geometric_median
\* Floats of the baseline computation are fixed-point numbers in units of
\* 1 / Res, rounded down; band values (int16 in the cube) are integers. X is
\* held time-major: X[t] is the band vector of date t (the code's X[:, t]).
RECURSIVE SqrtIn(_, _, _)
SqrtIn(v, lo, hi) ==
    IF hi - lo <= 1 THEN lo
    ELSE LET mid == (lo + hi) \div 2
         IN IF mid * mid <= v THEN SqrtIn(v, mid, hi) ELSE SqrtIn(v, lo, mid)

RECURSIVE SqrtAbove(_, _)
SqrtAbove(v, h) == IF h * h > v THEN h ELSE SqrtAbove(v, 2 * h)

\* np.sqrt on a non-negative fixed-point square, rounded down.
Sqrt(v) == SqrtIn(v, 0, SqrtAbove(v, 1))

RECURSIVE SumOf(_, _)
SumOf(f, S) ==
    IF S = {} THEN 0
    ELSE LET k == CHOOSE j \in S : TRUE IN f[k] + SumOf(f, S \ {k})

RECURSIVE ProdOf(_, _)
ProdOf(f, S) ==
    IF S = {} THEN 1
    ELSE LET k == CHOOSE j \in S : TRUE IN f[k] * ProdOf(f, S \ {k})

HasNaN(v) == \E b \in DOMAIN v : IsNaN(v[b])

AllNaN(p) == [b \in 1..p |-> NaN]

\* np.nanmean(X, axis=1): per band, the mean of the dates that are not NaN;
\* NaN for a band without any.
NanMean(X) ==
    [b \in 1..Len(X[1]) |->
        LET valid == {t \in 1..Len(X) : ~IsNaN(X[t][b])}
        IN IF valid = {} THEN NaN
           ELSE (Res * SumOf([t \in valid |-> X[t][b]], valid))
                   \div Cardinality(valid)]

\* np.sqrt(np.sum(eps**2)) for a scalar or a vector eps.
NormOf(eps) == Sqrt(SumOf([b \in DOMAIN eps |-> eps[b] * eps[b]], DOMAIN eps))

\* EucNorm[t]: the distance of date t to the estimate y0 (NaN when the
\* observation has a NaN band).
EucNormOf(X, y0, t) ==
    IF HasNaN(X[t]) THEN NaN
    ELSE NormOf([b \in 1..Len(y0) |-> X[t][b] * Res - y0[b]])

\* y1: the average of the dates in NotNaN weighted by 1 / EucNorm. A zero
\* distance makes the numerator inf or NaN and the denominator inf, hence
\* NaN in every band; so does an empty NotNaN (0 / 0).
WeightedAverage(X, y0) ==
    LET p      == Len(y0)
        norm   == [t \in 1..Len(X) |-> EucNormOf(X, y0, t)]
        NotNaN == {t \in 1..Len(X) : ~IsNaN(norm[t])}
        w      == [t \in NotNaN |-> ProdOf(norm, NotNaN \ {t})]
    IN IF NotNaN = {} \/ \E t \in NotNaN : norm[t] = 0
       THEN AllNaN(p)
       ELSE [b \in 1..p |->
               (Res * SumOf([t \in NotNaN |-> X[t][b] * w[t]], NotNaN))
                  \div SumOf(w, NotNaN)]

\* The while condition: sqrt(sum(eps**2)) > tol and l < MaxInter.
LoopCond(s, tol, MaxInter) == Gt(NormOf(s.eps), tol) /\ s.l < MaxInter

\* One pass of the loop body, lines 37-46.
LoopBody(X, s) ==
    LET y1 == WeightedAverage(X, s.y0)
    IN IF HasNaN(y1) THEN [s EXCEPT !.eps = << 0 >>]
       ELSE [y0 |-> y1, eps |-> [b \in 1..Len(y1) |-> y1[b] - s.y0[b]],
             l |-> s.l + 1]

\* eps = 10**2, l = 0 and y0 the mean, on entry of the loop.
LoopEntry(X) == [y0 |-> NanMean(X), eps |-> << 100 * Res >>, l |-> 0]

\* The loop run to its end. A pass that leaves y0, eps and l as they were
\* while the condition holds is repeated for ever: the call does not return.
RECURSIVE WhileLoop(_, _, _, _)
WhileLoop(X, tol, MaxInter, s) ==
    IF ~LoopCond(s, tol, MaxInter)
    THEN [status |-> "returned", geoMedian |-> s.y0]
    ELSE LET s2 == LoopBody(X, s)
         IN IF s2 = s THEN [status |-> "never", geoMedian |-> AllNaN(Len(s.y0))]
            ELSE WhileLoop(X, tol, MaxInter, s2)

geometric_median(X, tol, MaxInter) ==
    LET y0 == NanMean(X)
    IN IF HasNaN(y0) THEN [status |-> "returned", geoMedian |-> y0]
       ELSE WhileLoop(X, tol, MaxInter, LoopEntry(X))

\* Inputs of a geometric_median call: two-band observations, some with NaN.
MedianVecs ==
    {<< 1, 1 >>, << 3, 1 >>, << 1, 4 >>, << NaN, NaN >>, << 2, NaN >>, << NaN, 3 >>}

RECURSIVE SeqsUpTo(_, _)
SeqsUpTo(S, len) ==
    IF len = 0 THEN {<< >>}
    ELSE LET shorter == SeqsUpTo(S, len - 1)
         IN shorter \cup {Append(x, v) : x \in {y \in shorter : Len(y) = len - 1},
                                          v \in S}

\* Tolerances: negative, zero, the smallest positive one, above the initial
\* eps, NaN.
TolSet == {-Res, 0, 1, 101 * Res, NaN}

IterSet == {0, 1, MaxIter}

NoMedian == [X |-> << >>, tol |-> NaN, MaxInter |-> 0, pc |-> "none",
             s |-> [y0 |-> << >>, eps |-> << >>, l |-> 0],
             geoMedian |-> << >>, froze |-> FALSE, passes |-> 0]

\* The model follows a call for at most this many passes of its loop.
PassCap == MaxIter + 3

\* ------------------------------ BurnCube.hdgeomedian, distances, outliers
\* Band b of the code (red 0, green 1, blue 2, nir 3, swir1 4, swir2 5) is
\* position b + 1 of a band vector.
B(b) == b + 1

\* Band vectors of one date: masked by load_cube (all bands 0), vegetation,
\* burnt, swir2 non-positive, nir non-positive, green non-positive, nir and
\* swir2 both 0.
VecMasked == << 0, 0, 0, 0, 0, 0 >>

VecVeg == << 1, 1, 1, 4, 2, 1 >>

VecBurnt == << 1, 1, 1, 1, 2, 3 >>

VecNoSwir == << 1, 1, 1, 4, 2, -1 >>

VecNoNir == << 1, 1, 1, 0, 2, 3 >>

VecNoGreen == << 1, 0, 1, 4, 2, 1 >>

VecDark == << 1, 1, 1, 0, 1, 0 >>

\* The series of one pixel over the dates of the cube.
PixelSeries(kind) ==
    CASE kind = "masked"  -> << VecMasked, VecMasked, VecMasked >>
      [] kind = "veg"     -> << VecVeg, VecVeg, VecVeg >>
      [] kind = "single"  -> << VecMasked, VecVeg, VecMasked >>
      [] kind = "burn"    -> << VecVeg, VecVeg, VecBurnt >>
      [] kind = "noswir"  -> << VecMasked, VecNoSwir, VecMasked >>
      [] kind = "nonir"   -> << VecVeg, VecVeg, VecNoNir >>
      [] kind = "nogreen" -> << VecVeg, VecNoGreen, VecBurnt >>
      [] kind = "dark"    -> << VecVeg, VecDark, VecVeg >>

SeriesKinds ==
    {"masked", "veg", "single", "burn", "noswir", "nonir", "nogreen", "dark"}

\* self.dataset: a 1 x nx cube; X[p] is the series of pixel p, time the axis.
DatasetOf(kinds) ==
    [ny   |-> 1,
     nx   |-> Len(kinds),
     time |-> [k \in 1..Len(PixelSeries(kinds[1])) |-> DayOfStep(k)],
     X    |-> [p \in 0..(Len(kinds) - 1) |-> PixelSeries(kinds[p + 1])]]

Datasets == {DatasetOf(k) : k \in SeqsUpTo(SeriesKinds, MaxPix) \ {<< >>}}

\* epsilon = .5
DefaultEpsilon == Res \div 2

\* ind = np.where(X[1, :, i] > 0)[0]: the dates whose green band is positive.
ValidDates(series) == Where({t \in 1..Len(series) : series[t][B(1)] > 0})

\* dist_geomedian, one pixel: what is left in gmed[:, i] (old is its content
\* before), and whether the call of geometric_median returns.
GeomedianOf(series, epsilon, max_iter, old) ==
    LET ind == ValidDates(series)
    IN IF Len(ind) > 0
       THEN geometric_median(Take(series, ind), epsilon, max_iter)
       ELSE [status |-> "returned", geoMedian |-> old]

\* int16 arithmetic: the result wraps to 16 bits.
Wrap16(v) == ((v + 32768) % 65536) - 32768

\* a / b on floats, for b # 0 or a = b = 0 (0 / 0 is NaN); a NaN operand
\* gives NaN. The result is in units of 1 / Res.
FDiv(a, b) ==
    IF IsNaN(a) \/ IsNaN(b) \/ b = 0 THEN NaN ELSE (Res * a) \div b

Abs(v) == IF v < 0 THEN -v ELSE v

\* cosdistance for one date: 1 - sum(ref*obs) / (|ref| * |obs|).
CosDistance(ref, obs) ==
    LET dot  == SumOf([b \in 1..Len(ref) |-> ref[b] * obs[b]], 1..Len(ref))
        nref == NormOf(ref)
        nobs == NormOf([b \in 1..Len(obs) |-> Res * obs[b]])
    IN IF HasNaN(ref) \/ nref * nobs = 0 THEN NaN
       ELSE Res - (Res * Res * dot) \div (nref * nobs)

\* nbr_eucdistance for one date: the distance |obs - ref| and the sign; a
\* NaN obs keeps NBRdist NaN and Sign 0, and so does a NaN ref.
NbrEucDistance(ref, obs) ==
    IF IsNaN(obs) THEN [NBRdist |-> NaN, Sign |-> 0]
    ELSE IF IsNaN(ref) THEN [NBRdist |-> NaN, Sign |-> 0]
    ELSE [NBRdist |-> Abs(obs - ref), Sign |-> IF obs - ref < 0 THEN 1 ELSE 0]

\* nbrmed = (gmed[3] - gmed[5]) / (gmed[3] + gmed[5]), on floats.
NbrMed(g) ==
    IF HasNaN(g) THEN NaN
    ELSE IF g[B(3)] + g[B(5)] = 0 THEN NaN
    ELSE (Res * (g[B(3)] - g[B(5)])) \div (g[B(3)] + g[B(5)])

\* nbr of dist_distance, line 51: int16 difference and sum of the raw bands.
RawNbr(v) == FDiv(Wrap16(v[B(3)] - v[B(5)]), Wrap16(v[B(3)] + v[B(5)]))

\* nbr of distances, lines 279-283: nir <= 0 and swir2 <= 0 become NaN first.
MaskedNbr(v) ==
    IF v[B(3)] <= 0 \/ v[B(5)] <= 0 THEN NaN
    ELSE FDiv(v[B(3)] - v[B(5)], v[B(3)] + v[B(5)])

\* The fill values of cos_dist, nbr_dist and direction, lines 289-294.
FillDistance == [c |-> NaN, nd |-> NaN, s |-> 0]

\* dist_distance, one pixel: the columns cos_dist[:, i], nbr_dist[:, i] and
\* direction[:, i] (old is their content before).
DistanceOf(series, g, old) ==
    [t \in 1..Len(series) |->
        IF series[t][B(1)] > 0
        THEN LET e == NbrEucDistance(NbrMed(g), RawNbr(series[t]))
             IN [c |-> CosDistance(g, series[t]), nd |-> e.NBRdist, s |-> e.Sign]
        ELSE old[t]]

\* The defined values of one distance grid, ascending, with repetitions.
RECURSIVE SortedValues(_, _)
SortedValues(f, S) ==
    IF S = {} THEN << >>
    ELSE LET k == CHOOSE j \in S : \A o \in S : f[j] <= f[o]
         IN << f[k] >> \o SortedValues(f, S \ {k})

\* The q-th quartile (q = 1 or 3) of an ascending sequence, interpolated
\* linearly between neighbours, times 4; NaN for an empty sequence.
Quartile4(v, q) ==
    IF Len(v) = 0 THEN NaN
    ELSE LET pos4 == q * (Len(v) - 1)
             lo   == pos4 \div 4 + 1
             hi   == Min(lo + 1, Len(v))
         IN 4 * v[lo] + (pos4 % 4) * (v[hi] - v[lo])

\* nanpercentile(grid, [25, 75]): the quartiles of all defined samples of
\* the scene, one pair per pixel.
nanpercentile(d, field) ==
    LET cells  == {c \in (0..(d.ny * d.nx - 1)) \X (1..Len(d.time)) :
                      ~IsNaN(d.obs[c[1]][c[2]][field])}
        sorted == SortedValues([c \in cells |-> d.obs[c[1]][c[2]][field]], cells)
    IN [p \in 0..(d.ny * d.nx - 1) |->
          << Quartile4(sorted, 1), Quartile4(sorted, 3) >>]

\* The fence with the inter-quartile range added once.
TukeyFenceOnce(ps) ==
    IF IsNaN(ps[1]) \/ IsNaN(ps[2]) THEN NaN
    ELSE (4 * ps[2] + 4 * (ps[2] - ps[1])) \div 16

\* ps[1] + 1.5 * (ps[1] - ps[0]) of the code, on quartiles times 4.
TukeyFence(ps) ==
    IF IsNaN(ps[1]) \/ IsNaN(ps[2]) THEN NaN
    ELSE (4 * ps[2] + 6 * (ps[2] - ps[1])) \div 16

\* outliers(): self.outlrs.
OutliersOf(d) ==
    LET NBRps   == nanpercentile(d, "nd")
        CDistps == nanpercentile(d, "c")
    IN [NBRoutlier   |-> [p \in DOMAIN NBRps |-> TukeyFence(NBRps[p])],
        CDistoutlier |-> [p \in DOMAIN CDistps |-> TukeyFence(CDistps[p])]]

\* ------------------------------------------------------------------ state
VARIABLES
    call,     \* the arguments of the severity call under check
    ret,      \* what it returned (NoReturn before the call)
    med,      \* the geometric_median call under check: arguments and locals
    raw,      \* one date of dist_distance: its nir, swir2 and the NBR computed
    stage,    \* the method that runs the pool
    n,        \* number of pixels handed to the pool
    n_procs,  \* the parallelism factor the chunk size is computed from
    ppc,      \* "idle", "start", "submitted" (map_async done), "joined", "raised"
    pending,  \* tasks submitted and not yet taken by a worker process
    running,  \* tasks in a worker process, each with the next index i
    visits,   \* per pixel index, how many loop iterations processed it
    failed,   \* pixel indices whose computation raised inside a worker
    dataset,  \* self.dataset: the band cube and its time axis
    hargs,    \* arguments of hdgeomedian and of distances
    hpc,      \* position in the sequence hdgeomedian, distances, outliers
    buf,      \* shared output buffers of the stage that is running
    geomed,   \* self.geomed
    dists,    \* self.dists as built by distances
    outlrs,   \* self.outlrs as built by outliers
    cube,     \* the BurnCube object: self.dists and self.outlrs
    args,     \* the arguments of severitymapping: method, n_procs, growing
    pc,       \* position of the severitymapping call
    err,      \* the exception it raised ("none" when none)
    outlierind, \* the pixels selected by the pre-filter
    shared,   \* the shared arrays of severitymapping
    out       \* the value returned (or being built)

sevVars == << call, ret, med, raw >>

poolVars == << stage, n, n_procs, ppc, pending, running, visits, failed >>

stageVars == << dataset, hargs, hpc, buf, geomed, dists, outlrs >>

mapVars == << cube, args, pc, err, outlierind, shared, out >>

vars == << call, ret, med, raw, stage, n, n_procs, ppc, pending, running, visits,
           failed, dataset, hargs, hpc, buf, geomed, dists, outlrs,
           cube, args, pc, err, outlierind, shared, out >>

NoCall == [obs |-> << >>, Time |-> << >>, CDistoutlier |-> NaN,
           NBRoutlier |-> NaN, Method |-> 0]

\* No pool in use.
PoolIdle ==
    /\ stage = "none" /\ n = 0 /\ n_procs = 0 /\ ppc = "idle"
    /\ pending = {} /\ running = {} /\ visits = << >> /\ failed = {}

\* Neither hdgeomedian nor distances nor outliers in the model.
StageIdle ==
    /\ dataset = << >> /\ hargs = << >> /\ hpc = "none" /\ buf = << >>
    /\ geomed = << >> /\ dists = << >> /\ outlrs = << >>

NoRaw == [nir |-> 0, swir2 |-> 0, pc |-> "none", nbr |-> NaN]

SeverityIdle ==
    call = NoCall /\ ret = NoReturn /\ med = NoMedian /\ raw = NoRaw

NoShared == [sev |-> << >>, dates |-> << >>, days |-> << >>]

NoOut == [status |-> "unset", StartDate |-> << >>, Duration |-> << >>,
          Severity |-> << >>, Severe |-> << >>, Moderate |-> << >>,
          Corroborate |-> FALSE]

\* No severitymapping call in the model.
MappingIdle ==
    /\ cube = << >> /\ args = << >> /\ pc = "none" /\ err = "none"
    /\ outlierind = << >> /\ shared = NoShared /\ out = NoOut

InitSeverity ==
    /\ \E T \in 1..MaxT : \E obs \in Series(T), time \in TimeAxes(T),
          thr \in ThresholdSet, m \in 1..3 :
          call = [obs |-> obs, Time |-> time, CDistoutlier |-> thr,
                  NBRoutlier |-> thr, Method |-> m]
    /\ ret = NoReturn
    /\ med = NoMedian
    /\ raw = NoRaw
    /\ PoolIdle
    /\ StageIdle
    /\ MappingIdle

CallSeverity ==
    /\ call # NoCall /\ ret = NoReturn
    /\ ret' = severity(Column(call.obs, "c"), call.CDistoutlier, call.Time,
                       Column(call.obs, "nbr"), Column(call.obs, "nd"),
                       call.NBRoutlier, Column(call.obs, "s"), call.Method)
    /\ UNCHANGED << call, med, raw, poolVars, stageVars, mapVars >>

NextSeverity == CallSeverity

SpecSeverity == InitSeverity /\ [][NextSeverity]_vars

\* --------------------------------------------------- the pool, as a machine
\* p.join() returning as soon as no task is left in the queue.
AllTasksTaken == pending = {}

\* p.join() after p.close(): it returns once the worker processes have
\* exited, which they do when every task of the queue has been run.
AllTasksDone == pending = {} /\ running = {}

\* with closing(mp.Pool(...)) as p: chunk = n // n_procs; p.map_async(worker,
\* [(i, min(n, i + chunk), ...) for i in range(0, n, chunk)]); p.join()
InitPool ==
    /\ SeverityIdle
    /\ StageIdle
    /\ MappingIdle
    /\ stage \in Stages
    /\ n \in PixelCounts(stage)
    /\ n_procs \in 1..MaxProcs
    /\ ppc = "start"
    /\ pending = {} /\ running = {} /\ failed = {}
    /\ visits = [i \in 0..(n - 1) |-> 0]

\* The task list is built and handed to map_async; range() raises ValueError
\* when the step chunk is 0, before anything is submitted.
Submit ==
    /\ ppc = "start"
    /\ IF Chunk(n, n_procs) = 0
       THEN ppc' = "raised" /\ UNCHANGED pending
       ELSE ppc' = "submitted" /\ pending' = ChunkList(n, Chunk(n, n_procs))
    /\ UNCHANGED << sevVars, stageVars, mapVars, stage, n, n_procs, running, visits,
                    failed >>

\* A free worker process takes a task: for i in range(params[0], params[1]).
TakeTask ==
    /\ ppc = "submitted"
    /\ Cardinality(running) < MaxCpu
    /\ \E t \in pending :
          /\ pending' = pending \ {t}
          /\ running' = running \cup {[lo |-> t.lo, hi |-> t.hi, i |-> t.lo]}
    /\ UNCHANGED << sevVars, stageVars, mapVars, stage, n, n_procs, ppc, visits,
                    failed >>

\* One iteration of a worker's loop: pixel i is computed and its output
\* column written; the task ends when i reaches hi.
WorkPixel ==
    /\ \E r \in running :
          /\ visits' = [visits EXCEPT ![r.i] = @ + 1]
          /\ running' = (running \ {r}) \cup
                          (IF r.i + 1 < r.hi
                           THEN {[r EXCEPT !.i = r.i + 1]} ELSE {})
    /\ UNCHANGED << sevVars, stageVars, mapVars, stage, n, n_procs, ppc, pending,
                    failed >>

\* An exception raised while pixel i is computed (the workers have no
\* handler): it leaves the for loop and ends the task, whose result, the
\* exception, map_async keeps and nobody reads.
PixelRaises ==
    /\ Cardinality(failed) < MaxFaults
    /\ \E r \in running :
          /\ failed' = failed \cup {r.i}
          /\ running' = running \ {r}
    /\ UNCHANGED << sevVars, stageVars, mapVars, stage, n, n_procs, ppc, pending,
                    visits >>

\* p.join(): returns once every submitted task has been run.
Join ==
    /\ ppc = "submitted" /\ AllTasksDone
    /\ ppc' = "joined"
    /\ UNCHANGED << sevVars, stageVars, mapVars, stage, n, n_procs, pending, running,
                    visits, failed >>

NextPool == Submit \/ TakeTask \/ WorkPixel \/ PixelRaises \/ Join

SpecPool == InitPool /\ [][NextPool]_vars

\* ------------------------------------ geometric_median, as a state machine
InitMedian ==
    /\ call = NoCall /\ ret = NoReturn /\ raw = NoRaw
    /\ PoolIdle
    /\ StageIdle
    /\ MappingIdle
    /\ med = [NoMedian EXCEPT !.pc = "call"]

\* geometric_median(X, tol, MaxInter) is called. Lines 28-34: the mean; a
\* NaN band ends the call with the mean as result.
MedianCall ==
    /\ med.pc = "call"
    /\ \E X \in SeqsUpTo(MedianVecs, MaxObs) \ {<< >>}, tol \in TolSet,
          MaxInter \in IterSet :
          LET y0 == NanMean(X)
              m  == [med EXCEPT !.X = X, !.tol = tol, !.MaxInter = MaxInter]
          IN IF HasNaN(y0)
             THEN med' = [m EXCEPT !.pc = "returned", !.geoMedian = y0]
             ELSE med' = [m EXCEPT !.pc = "loop", !.s = LoopEntry(X)]
    /\ UNCHANGED << call, ret, raw, poolVars, stageVars, mapVars >>

\* Lines 35-47: the while condition is evaluated; one pass of the body, or
\* the loop ends and geoMedian = y0 is returned. froze records that the
\* update of a pass was undefined, passes counts the passes of the body.
MedianPass ==
    /\ med.pc = "loop"
    /\ med.passes < PassCap
    /\ IF LoopCond(med.s, med.tol, med.MaxInter)
       THEN med' = [med EXCEPT
                      !.s = LoopBody(med.X, med.s),
                      !.froze = @ \/ HasNaN(WeightedAverage(med.X, med.s.y0)),
                      !.passes = @ + 1]
       ELSE med' = [med EXCEPT !.pc = "returned", !.geoMedian = med.s.y0]
    /\ UNCHANGED << call, ret, raw, poolVars, stageVars, mapVars >>

NextMedian == MedianCall \/ MedianPass

SpecMedian == InitMedian /\ [][NextMedian]_vars

\* ----------------------------- the NBR of dist_distance, as a machine
\* One date of one pixel, valid in every band, with the nir and swir2 values
\* drawn from the positive int16 range; line 51 computes its NBR.
BandValues == {1, 2, 5000, 10000, 16383, 16384, 20000, 25000, 30000, 32767}

InitNbr ==
    /\ call = NoCall /\ ret = NoReturn /\ med = NoMedian
    /\ raw \in [nir : BandValues, swir2 : BandValues, pc : {"call"}, nbr : {NaN}]
    /\ PoolIdle
    /\ StageIdle
    /\ MappingIdle

ObserveNbr ==
    /\ raw.pc = "call"
    /\ raw' = [raw EXCEPT
                 !.nbr = RawNbr(<< 1, 1, 1, raw.nir, 1, raw.swir2 >>),
                 !.pc = "done"]
    /\ UNCHANGED << call, ret, med, poolVars, stageVars, mapVars >>

NextNbr == ObserveNbr

SpecNbr == InitNbr /\ [][NextNbr]_vars

\* --------------------- hdgeomedian, distances, outliers, as a state machine
\* The period covers the whole time axis of self.dataset.
InitBaseline ==
    /\ SeverityIdle
    /\ PoolIdle
    /\ MappingIdle
    /\ dataset \in Datasets
    /\ hargs \in [n_procs : 1..MaxProcs, epsilon : {DefaultEpsilon, -1},
                  max_iter : {1, MaxIter}]
    /\ hpc = "hdgeomedian"
    /\ buf = << >> /\ geomed = << >> /\ dists = << >> /\ outlrs = << >>

\* A stage creates its pool and hands the chunk list to map_async; range()
\* raises ValueError when the chunk size is 0.
StartPool(name, np, onpool) ==
    LET len == dataset.ny * dataset.nx
    IN /\ stage' = name
       /\ n' = len
       /\ n_procs' = np
       /\ visits' = [i \in 0..(len - 1) |-> 0]
       /\ running' = {}
       /\ failed' = {}
       /\ IF Chunk(len, np) = 0
          THEN hpc' = "raised" /\ ppc' = "raised" /\ pending' = {}
          ELSE /\ hpc' = onpool /\ ppc' = "submitted"
               /\ pending' = ChunkList(len, Chunk(len, np))

\* hdgeomedian, lines 232-251: gmed is filled with NaN and the pool started.
HdGeomedian ==
    /\ hpc = "hdgeomedian"
    /\ buf' = [gmed |-> [p \in 0..(dataset.ny * dataset.nx - 1) |->
                           AllNaN(Len(dataset.X[p][1]))],
               hung |-> {}]
    /\ StartPool("hdgeomedian", hargs.n_procs, "gpool")
    /\ UNCHANGED << sevVars, mapVars, dataset, hargs, geomed, dists, outlrs >>

\* dist_geomedian, one iteration of its loop. A call of geometric_median
\* that does not return keeps the worker in that iteration for ever.
GeomedianPixel ==
    /\ hpc = "gpool"
    /\ \E r \in running :
          /\ r.i \notin buf.hung
          /\ LET g == GeomedianOf(dataset.X[r.i], hargs.epsilon, hargs.max_iter,
                                  buf.gmed[r.i])
             IN IF g.status = "never"
                THEN /\ buf' = [buf EXCEPT !.hung = @ \cup {r.i}]
                     /\ UNCHANGED << visits, running >>
                ELSE /\ buf' = [buf EXCEPT !.gmed[r.i] = g.geoMedian]
                     /\ visits' = [visits EXCEPT ![r.i] = @ + 1]
                     /\ running' = (running \ {r}) \cup
                                     (IF r.i + 1 < r.hi
                                      THEN {[r EXCEPT !.i = r.i + 1]} ELSE {})
    /\ UNCHANGED << sevVars, mapVars, stage, n, n_procs, ppc, pending, failed,
                    dataset, hargs, hpc, geomed, dists, outlrs >>

\* hdgeomedian, lines 252-260: p.join(), then self.geomed.
GeomedianJoin ==
    /\ hpc = "gpool" /\ ppc = "submitted" /\ AllTasksDone
    /\ ppc' = "joined"
    /\ geomed' = buf.gmed
    /\ hpc' = "geomed"
    /\ UNCHANGED << sevVars, mapVars, stage, n, n_procs, pending, running,
                    visits, failed, dataset, hargs, buf, dists, outlrs >>

\* distances, lines 275-319: the masked NBR, the output buffers with their
\* fill values, and the pool.
Distances ==
    /\ hpc = "geomed"
    /\ buf' = [nbr |-> [p \in DOMAIN dataset.X |->
                          [t \in 1..Len(dataset.time) |->
                              MaskedNbr(dataset.X[p][t])]],
               out |-> [p \in DOMAIN dataset.X |->
                          [t \in 1..Len(dataset.time) |-> FillDistance]]]
    /\ \E np \in 1..MaxProcs : StartPool("distances", np, "dpool")
    /\ UNCHANGED << sevVars, mapVars, dataset, hargs, geomed, dists, outlrs >>

\* dist_distance, one iteration of its loop.
DistancePixel ==
    /\ hpc = "dpool"
    /\ \E r \in running :
          /\ buf' = [buf EXCEPT !.out[r.i] =
                        DistanceOf(dataset.X[r.i], geomed[r.i], buf.out[r.i])]
          /\ visits' = [visits EXCEPT ![r.i] = @ + 1]
          /\ running' = (running \ {r}) \cup
                          (IF r.i + 1 < r.hi
                           THEN {[r EXCEPT !.i = r.i + 1]} ELSE {})
    /\ UNCHANGED << sevVars, mapVars, stage, n, n_procs, ppc, pending, failed,
                    dataset, hargs, hpc, geomed, dists, outlrs >>

\* distances, lines 321-334: p.join(), then self.dists.
DistancesJoin ==
    /\ hpc = "dpool" /\ ppc = "submitted" /\ AllTasksDone
    /\ ppc' = "joined"
    /\ dists' = [ny   |-> dataset.ny,
                 nx   |-> dataset.nx,
                 time |-> dataset.time,
                 obs  |-> [p \in DOMAIN dataset.X |->
                             [t \in 1..Len(dataset.time) |->
                                 [c   |-> buf.out[p][t].c,
                                  nbr |-> buf.nbr[p][t],
                                  nd  |-> buf.out[p][t].nd,
                                  s   |-> buf.out[p][t].s]]]]
    /\ hpc' = "dists"
    /\ UNCHANGED << sevVars, mapVars, stage, n, n_procs, pending, running,
                    visits, failed, dataset, hargs, buf, geomed, outlrs >>

\* outliers, lines 340-348.
Outliers ==
    /\ hpc = "dists"
    /\ outlrs' = OutliersOf(dists)
    /\ hpc' = "outlrs"
    /\ UNCHANGED << sevVars, mapVars, poolVars, dataset, hargs, buf, geomed,
                    dists >>

NextBaseline ==
    \/ HdGeomedian
    \/ TakeTask
    \/ GeomedianPixel
    \/ GeomedianJoin
    \/ Distances
    \/ DistancePixel
    \/ DistancesJoin
    \/ Outliers

SpecBaseline == InitBaseline /\ [][NextBaseline]_vars

\* -------------------------- severitymapping over a period, as a machine
\* Lines 428-483 for a period given as a pair of days: the grids are
\* reshaped, the pre-filter is run and the columns of the selected pixels
\* are copied into the shared input arrays.
InitPeriod ==
    /\ SeverityIdle
    /\ PoolIdle
    /\ StageIdle
    /\ cube \in {CubeOf(sc) : sc \in SmallScenes}
    /\ \E first, last \in Range(cube.dists.time) :
          /\ first <= last
          /\ args \in [method : {"NBR", "NBRdist"}, period : {<< first, last >>}]
    /\ pc = "call"
    /\ err = "none"
    /\ outlierind = << >>
    /\ shared = << >>
    /\ out = NoOut

SharePeriod ==
    /\ pc = "call"
    /\ LET data == PeriodSteps(cube, args.period)
           ind  == PreFilter(cube, args.method)
       IN IF ~Reshapes(cube, Len(data))
          THEN pc' = "raised" /\ err' = "ValueError"
               /\ UNCHANGED << outlierind, shared, out >>
          ELSE /\ outlierind' = ind
               /\ IF Len(ind) = 0
                  THEN /\ pc' = "returned"
                       /\ out' = [NoOut EXCEPT !.status = "None"]
                       /\ UNCHANGED << err, shared >>
                  ELSE /\ pc' = "shared"
                       /\ shared' = SharedInputs(cube, data, ind)
                       /\ UNCHANGED << err, out >>
    /\ UNCHANGED << sevVars, poolVars, stageVars, cube, args >>

NextPeriod == SharePeriod

SpecPeriod == InitPeriod /\ [][NextPeriod]_vars

\* ------------------------------------- severitymapping, as a state machine
\* The period covers the whole time axis of self.dists.
Init ==
    /\ SeverityIdle
    /\ PoolIdle
    /\ StageIdle
    /\ cube \in {CubeOf(sc) : sc \in Scenes}
    /\ args \in [method : MethodSet, n_procs : 1..MaxProcs, growing : BOOLEAN]
    /\ pc = "call"
    /\ err = "none"
    /\ outlierind = << >>
    /\ shared = NoShared
    /\ out = NoOut

\* Lines 428-526: the method is checked and the pre-filter run; an empty
\* selection returns None; otherwise the shared arrays are allocated, the
\* pool is created and the chunk list handed to map_async.
SeverityMapping ==
    /\ pc = "call"
    /\ IF ~Recognised(args.method)
       THEN /\ pc' = "raised" /\ err' = "ValueError"
            /\ UNCHANGED << outlierind, shared, out, poolVars >>
       ELSE
         LET ind == PreFilter(cube, args.method)
             len == Len(ind)
         IN /\ outlierind' = ind
            /\ IF len = 0
               THEN /\ pc' = "returned"
                    /\ out' = [NoOut EXCEPT !.status = "None"]
                    /\ UNCHANGED << err, shared, poolVars >>
               ELSE
                 /\ shared' = [sev   |-> [i \in 0..(len - 1) |-> NaN],
                               dates |-> [i \in 0..(len - 1) |-> NaN],
                               days  |-> [i \in 0..(len - 1) |-> 0]]
                 /\ stage' = "severitymapping"
                 /\ n' = len
                 /\ n_procs' = args.n_procs
                 /\ visits' = [i \in 0..(len - 1) |-> 0]
                 /\ running' = {}
                 /\ failed' = {}
                 /\ IF Chunk(len, args.n_procs) = 0
                    THEN /\ pc' = "raised" /\ err' = "ValueError"
                         /\ ppc' = "raised"
                         /\ pending' = {}
                    ELSE /\ pc' = "pool"
                         /\ ppc' = "submitted"
                         /\ pending' = ChunkList(len, Chunk(len, args.n_procs))
                         /\ UNCHANGED err
                 /\ UNCHANGED out
    /\ UNCHANGED << sevVars, stageVars, cube, args >>

\* dist_severity, one iteration of "for i in range(params[0], params[1])":
\* sev[i], dates[i], days[i] = severity(...).
SeverityPixel ==
    /\ pc = "pool"
    /\ \E r \in running :
          LET res == SeverityOf(cube, outlierind, args.method, r.i)
          IN /\ shared' = [sev   |-> [shared.sev EXCEPT ![r.i] = res.sevindex],
                           dates |-> [shared.dates EXCEPT ![r.i] = res.startdate],
                           days  |-> [shared.days EXCEPT ![r.i] = res.duration]]
             /\ visits' = [visits EXCEPT ![r.i] = @ + 1]
             /\ running' = (running \ {r}) \cup
                             (IF r.i + 1 < r.hi
                              THEN {[r EXCEPT !.i = r.i + 1]} ELSE {})
    /\ UNCHANGED << sevVars, stageVars, stage, n, n_procs, ppc, pending, failed,
                    cube, args, pc, err, outlierind, out >>

\* Lines 528-550: p.join(), then the result grids are assembled.
Assemble ==
    /\ pc = "pool" /\ ppc = "submitted" /\ AllTasksDone
    /\ ppc' = "joined"
    /\ \E nanint \in NaNAsInt16 :
          LET sevindex  == Scatter(cube, outlierind, shared.sev)
              duration  == ZeroToNaN(Scatter(cube, outlierind, shared.days))
              startdate == ZeroToNaN(Scatter(cube, outlierind, shared.dates))
          IN out' = [status    |-> "Dataset",
                     StartDate |-> startdate,
                     Duration  |-> [p \in Pixels(cube) |->
                                      IF IsNaN(duration[p]) THEN nanint
                                      ELSE duration[p]],
                     Severity  |-> sevindex,
                     Severe    |-> Burnt(cube, duration),
                     Moderate  |-> << >>,
                     Corroborate |-> FALSE]
    /\ pc' = IF args.growing THEN "growing" ELSE "hotspots"
    /\ UNCHANGED << sevVars, stageVars, stage, n, n_procs, pending, running,
                    visits, failed,
                    cube, args, err, outlierind, shared >>

\* Region growing that also stores the grown mask as the Severe mask.
RegionGrowingMarksSevere ==
    /\ pc = "growing"
    /\ LET g == region_growing(cube, out)
       IN IF g.raised # "none"
          THEN pc' = "raised" /\ err' = g.raised /\ UNCHANGED out
          ELSE /\ pc' = "hotspots"
               /\ out' = [out EXCEPT !.Moderate = g.BurnExtent,
                                     !.Severe = g.BurnExtent,
                                     !.StartDate = ZeroToNaN(g.Startdates)]
               /\ UNCHANGED err
    /\ UNCHANGED << sevVars, stageVars, poolVars, cube, args, outlierind, shared >>

\* Lines 551-555: region growing on the assembled result; its start dates
\* replace those of the result.
RegionGrowing ==
    /\ pc = "growing"
    /\ LET g == region_growing(cube, out)
       IN IF g.raised # "none"
          THEN pc' = "raised" /\ err' = g.raised /\ UNCHANGED out
          ELSE /\ pc' = "hotspots"
               /\ out' = [out EXCEPT !.Moderate = g.BurnExtent,
                                     !.StartDate = ZeroToNaN(g.Startdates)]
               /\ UNCHANGED err
    /\ UNCHANGED << sevVars, stageVars, poolVars, cube, args, outlierind, shared >>

\* Lines 557-588: the hotspot polygons of the fire period are looked up (an
\* external data source: with or without data) and the result is returned.
Hotspots ==
    /\ pc = "hotspots"
    /\ \E found \in BOOLEAN : out' = [out EXCEPT !.Corroborate = found]
    /\ pc' = "returned"
    /\ UNCHANGED << sevVars, stageVars, poolVars, cube, args, err, outlierind, shared >>

Next ==
    \/ SeverityMapping
    \/ TakeTask
    \/ SeverityPixel
    \/ Assemble
    \/ RegionGrowing
    \/ Hotspots

Spec == Init /\ [][Next]_vars

\* ======================================================= claims: severity
\* What the claims mean by an outlier and by a linked pair, stated on the
\* series as given (before any NaN is removed).
SevValid(k) == ~IsNaN(call.obs[k].c)

SevOutlier(k) ==
    /\ SevValid(k)
    /\ OutlierRule(call.Method, call.obs[k].c, call.obs[k].nbr, call.obs[k].nd,
                   call.obs[k].s, call.CDistoutlier, call.NBRoutlier)

SevOutliers == {k \in 1..Len(call.obs) : SevOutlier(k)}

\* k and j are linked: both outliers, and j is the next valid observation
\* after k.
SevLinked(k, j) ==
    /\ k < j
    /\ SevOutlier(k) /\ SevOutlier(j)
    /\ \A i \in (k + 1)..(j - 1) : ~SevValid(i)

SevLinkedPairs ==
    {p \in (1..Len(call.obs)) \X (1..Len(call.obs)) : SevLinked(p[1], p[2])}

RECURSIVE SumGaps(_)
SumGaps(P) ==
    IF P = {} THEN 0
    ELSE LET p == CHOOSE q \in P : TRUE
         IN (call.Time[p[2]] - call.Time[p[1]]) + SumGaps(P \ {p})

Returned == ret # NoReturn

\* C8: without a linked consecutive outlier pair (in particular with exactly
\* one outlier time step) severity returns zero severity, zero duration and
\* the sentinel start date 0.
C8_NoLinkedPairIsZero ==
    (Returned /\ SevLinkedPairs = {}) =>
        (ret.sevindex = 0 /\ ret.duration = 0 /\ ret.startdate = 0)

\* C8 witness: a call returned on a series with outliers, none of them linked,
\* one of them followed by a valid observation.
C8_Witness ==
    /\ Returned
    /\ Cardinality(SevOutliers) >= 1
    /\ SevLinkedPairs = {}
    /\ \E k \in SevOutliers : \E j \in (k + 1)..Len(call.obs) : SevValid(j)
    /\ ret.duration = 0

\* C9: the duration is the sum of the day gaps of all linked pairs; with
\* exactly two outliers that are adjacent valid observations it is the
\* elapsed days between the two, which is strictly positive.
C9_DurationIsSumOfGaps ==
    Returned =>
        /\ ret.duration = SumGaps(SevLinkedPairs)
        /\ \A k, j \in 1..Len(call.obs) :
              (SevOutliers = {k, j} /\ SevLinked(k, j)) =>
                 (ret.duration = call.Time[j] - call.Time[k] /\ ret.duration > 0)

\* C9 witness: exactly two outliers, linked across a missing observation,
\* more than one day apart.
C9_Witness ==
    /\ Returned
    /\ \E k, j \in 1..Len(call.obs) :
          /\ SevOutliers = {k, j} /\ SevLinked(k, j)
          /\ j > k + 1
          /\ ret.duration = call.Time[j] - call.Time[k]
          /\ ret.duration > 1

\* C10: the start date is the timestamp of the first outlier of the
\* chronologically first linked pair, and the sentinel 0 without any.
C10_StartDateFirstLinked ==
    Returned =>
        IF SevLinkedPairs = {} THEN ret.startdate = 0
        ELSE ret.startdate = call.Time[MinOf({p[1] : p \in SevLinkedPairs})]

\* C10 witness: the first outlier is isolated and a linked pair follows; the
\* start date is that of the pair.
C10_Witness ==
    /\ Returned
    /\ SevLinkedPairs # {}
    /\ MinOf(SevOutliers) < MinOf({p[1] : p \in SevLinkedPairs})
    /\ ret.startdate = call.Time[MinOf({p[1] : p \in SevLinkedPairs})]

\* =========================================================== claims: pool
PoolEnded == ppc \in {"joined", "raised"}

\* C1: for every N >= 1 and n_procs >= 1 the chunk list is an exact partition
\* of [0,N): once the stage has ended, every pixel index has been processed
\* by exactly one loop iteration of exactly one task, and no two tasks ever
\* hold the same index.
C1_ExactPartition ==
    /\ (PoolEnded /\ n >= 1) => \A i \in 0..(n - 1) : visits[i] = 1
    /\ \A t, u \in pending \cup {[lo |-> r.lo, hi |-> r.hi] : r \in running} :
          t # u => (t.hi <= u.lo \/ u.hi <= t.lo)

\* ================================================ claims: severitymapping
\* The three policies of the specification, by number (A = 1, B = 2, C = 3),
\* stated on the grids of the scene.
PolicyOutlier(policy, p, k) ==
    LET o == cube.dists.obs[p][k]
    IN /\ ~IsNaN(o.c)
       /\ OutlierRule(policy, o.c, o.nbr, o.nd, o.s,
                      cube.outlrs.CDistoutlier[p], cube.outlrs.NBRoutlier[p])

PolicyPixels(policy) ==
    {p \in Pixels(cube) : \E k \in Steps(cube) : PolicyOutlier(policy, p, k)}

\* The policy each value of the method argument is to select.
PolicyOf(method) ==
    CASE method = "cosdist" -> 1
      [] method = "NBR"     -> 2
      [] method = "NBRdist" -> 3

\* The names of the policies the pipeline offers.
PolicyNames == {"NBR", "NBRdist"}

DefaultArgs ==
    /\ args.method = DefaultMethod
    /\ args.n_procs = DefaultNProcs
    /\ args.growing = DefaultGrowing

Ended == pc \in {"returned", "raised"}

\* The scene of the end-to-end scenario with the drop at pixel q, steps k
\* and k + 1.
IsScenario(q, k) ==
    /\ cube.dists.ny = 3 /\ cube.dists.nx = 3 /\ Len(cube.dists.time) = 10
    /\ \A p \in Pixels(cube) : \A t \in Steps(cube) :
          cube.dists.obs[p][t] =
             IF p = q /\ t \in {k, k + 1} THEN ObsDrop ELSE ObsStable

\* C2: on the 3 x 3 x 10 scenario, with the default parameters,
\* severitymapping returns a result where exactly the drop pixel is Severe,
\* with duration > 0 and the first drop step as start date, and every other
\* pixel has severity 0.
C2_EndToEndScenario ==
    \A q \in 0..8 : \A k \in 1..9 :
       (IsScenario(q, k) /\ DefaultArgs /\ Ended) =>
          /\ pc = "returned" /\ out.status = "Dataset"
          /\ out.Severe[q] = 1
          /\ out.Duration[q] > 0
          /\ out.StartDate[q] = cube.dists.time[k]
          /\ \A p \in Pixels(cube) \ {q} :
                out.Severity[p] = 0 /\ out.Severe[p] = 0

NoStartDate == \A i \in DOMAIN shared.dates : shared.dates[i] = 0

\* C4: when the severity result holds no defined start date, region growing
\* is a no-op: it does not raise, the extent is all zero and no start date
\* is set.
C4_GrowingNoOpWithoutDates ==
    (args.growing /\ ppc = "joined" /\ NoStartDate
        /\ pc \in {"hotspots", "returned", "raised"}) =>
        /\ pc # "raised"
        /\ \A p \in Pixels(cube) :
              out.Moderate[p] = 0 /\ IsNaN(out.StartDate[p])

\* C5: a method name that is not recognised makes the call raise ValueError
\* as its first and only step, with the pool, the pre-filter result, the
\* shared arrays, the result and the object state (dists, outlrs) untouched.
C5_BadMethodRejected ==
    [][ /\ (pc = "call" /\ args.method \notin PolicyNames) =>
              /\ pc' = "raised" /\ err' = "ValueError"
              /\ UNCHANGED << cube, poolVars, outlierind, shared, out >>
              /\ PoolIdle /\ out = NoOut /\ shared = NoShared
        /\ (pc = "raised" /\ args.method \notin PolicyNames) => UNCHANGED vars
      ]_vars

\* C5 witness: the call has raised on an unrecognised method, on a scene
\* that has outlier pixels.
C5_Witness ==
    /\ pc = "raised" /\ err = "ValueError"
    /\ args.method \notin PolicyNames
    /\ PolicyPixels(1) # {}
    /\ PoolIdle /\ out = NoOut

\* C6: each of the three policies A, B and C can be selected by the method
\* argument and is then the rule that flags the outlier pixels.
C6_ThreePoliciesSelectable ==
    \A m \in MethodSet :
       (args.method = m /\ pc # "call") =>
          /\ ~(pc = "raised" /\ PoolIdle)
          /\ Range(outlierind) = PolicyPixels(PolicyOf(m))

\* C7: with the default method the pipeline applies Policy C: the pixels
\* selected are those with a time step whose cosine distance and NBR distance
\* exceed their thresholds and whose direction is 1, and each is scored with
\* that rule.
C7_DefaultIsPolicyC ==
    (args.method = DefaultMethod /\ pc # "call") =>
        /\ Range(outlierind) = PolicyPixels(3)
        /\ \A i \in DOMAIN visits :
              visits[i] > 0 =>
                 LET p == outlierind[i + 1]
                     obs == cube.dists.obs[p]
                     r == severity(Column(obs, "c"), cube.outlrs.CDistoutlier[p],
                                   cube.dists.time, Column(obs, "nbr"),
                                   Column(obs, "nd"), cube.outlrs.NBRoutlier[p],
                                   Column(obs, "s"), 3)
                 IN /\ shared.sev[i] = r.sevindex
                    /\ shared.dates[i] = r.startdate
                    /\ shared.days[i] = r.duration

\* What the claims mean by the accumulated duration of a pixel: the sum of the
\* day gaps of its linked pairs under a policy, stated on the scene.
PixLinked(policy, p, k, j) ==
    /\ k < j
    /\ PolicyOutlier(policy, p, k) /\ PolicyOutlier(policy, p, j)
    /\ \A i \in (k + 1)..(j - 1) : IsNaN(cube.dists.obs[p][i].c)

PixLinkedPairs(policy, p) ==
    {q \in Steps(cube) \X Steps(cube) : PixLinked(policy, p, q[1], q[2])}

RECURSIVE GapSum(_, _)
GapSum(P, time) ==
    IF P = {} THEN 0
    ELSE LET q == CHOOSE r \in P : TRUE
         IN (time[q[2]] - time[q[1]]) + GapSum(P \ {q}, time)

PixDuration(policy, p) == GapSum(PixLinkedPairs(policy, p), cube.dists.time)

HasResult == pc \in {"growing", "hotspots", "returned"} /\ out.status = "Dataset"

\* C11: in the severitymapping result a pixel's Severe flag is 1 iff its
\* accumulated duration is greater than 1 day; a pixel with duration <= 1 day,
\* without a linked pair or not selected by the pre-filter has Severe = 0.
C11_SevereIffDurationAboveOneDay ==
    (HasResult /\ args.method \in PolicyNames) =>
        \A p \in Pixels(cube) :
           /\ out.Severe[p] = (IF PixDuration(PolicyOf(args.method), p) > 1
                               THEN 1 ELSE 0)
           /\ p \notin Range(outlierind) => out.Severe[p] = 0

\* C11 witness: a returned result with a Severe pixel, a pixel whose linked
\* pair is exactly one day apart and a pixel the pre-filter did not select.
C11_Witness ==
    /\ pc = "returned" /\ out.status = "Dataset"
    /\ args.method \in PolicyNames
    /\ \E p, q, r \in Pixels(cube) :
          /\ out.Severe[p] = 1 /\ PixDuration(PolicyOf(args.method), p) > 1
          /\ out.Severe[q] = 0 /\ PixDuration(PolicyOf(args.method), q) = 1
          /\ r \notin Range(outlierind) /\ out.Severe[r] = 0

\* ================================================ claims: geometric_median
\* C12: for every input and every tolerance / max-iteration pair the call
\* terminates and performs at most MaxInter estimate updates, whether or not
\* the tolerance is reached and also when an update is undefined: the loop
\* body runs at most MaxInter + 1 times (the updates, and at most one pass
\* whose update is undefined) and the next evaluation of the condition ends
\* the call.
C12_TerminatesWithinMaxInter ==
    /\ med.s.l <= med.MaxInter
    /\ med.passes <= med.MaxInter + 1

\* C14: once an update has an undefined component the estimate is frozen, the
\* call stops at the next evaluation of the loop condition, and what it
\* returns is the estimate it had before that update, never the undefined
\* one.
C14_UndefinedUpdateFreezes ==
    [][ /\ med.froze => med'.s.y0 = med.s.y0
        /\ (med.froze /\ med.pc = "loop") =>
              /\ med'.pc = "returned"
              /\ med'.geoMedian = med.s.y0
              /\ ~HasNaN(med'.geoMedian) ]_vars

\* C20: a failure while computing one pixel inside a worker chunk does not
\* keep the remaining pixels of that chunk, or of any other chunk, from being
\* computed: once the stage is joined, every pixel but the failing one has
\* been processed.
C20_PixelFailureIsLocal ==
    (ppc = "joined") => \A i \in 0..(n - 1) : i \notin failed => visits[i] = 1

\* ======================================= claims: baseline and distances
\* A valid observation: every band of the date is positive.
ValidObservation(v) == \A b \in 1..Len(v) : v[b] > 0

ValidDatesAllBands(series) ==
    Where({t \in 1..Len(series) : ValidObservation(series[t])})

GeomedBuilt == hpc \in {"geomed", "dpool", "dists", "outlrs"}

DistsBuilt == hpc \in {"dists", "outlrs"}

Finite(v) == ~HasNaN(v)

\* C13: in the geomedian grid, a pixel with at least one valid observation
\* (a single one, or several identical ones, included) has a finite baseline
\* in every band, and a pixel without any valid observation has NaN in every
\* band.
C13_BaselineFiniteIffObserved ==
    GeomedBuilt =>
        \A p \in DOMAIN dataset.X :
           IF Len(ValidDatesAllBands(dataset.X[p])) > 0
           THEN Finite(geomed[p])
           ELSE geomed[p] = AllNaN(Len(geomed[p]))

\* C15: a date enters the geometric-median reduction of a pixel only if all
\* six bands are positive: the baseline of every pixel is the geometric
\* median of its valid observations alone.
C15_OnlyValidDatesReduced ==
    GeomedBuilt =>
        \A p \in DOMAIN dataset.X :
           LET ind == ValidDatesAllBands(dataset.X[p])
               g   == geometric_median(Take(dataset.X[p], ind), hargs.epsilon,
                                       hargs.max_iter)
           IN IF Len(ind) = 0 THEN geomed[p] = AllNaN(Len(geomed[p]))
              ELSE g.status = "returned" => geomed[p] = g.geoMedian

\* C16: the change direction of a pixel and date is exactly 1 when the
\* observed NBR is below the baseline NBR, exactly 0 when it is greater or
\* equal, and undefined (NaN, not 0) when the observed NBR is undefined or
\* the pixel has no observation at that date.
C16_DirectionTriState ==
    DistsBuilt =>
        \A p \in DOMAIN dataset.X : \A t \in 1..Len(dataset.time) :
           LET o    == dists.obs[p][t]
               base == NbrMed(geomed[p])
           IN IF IsNaN(o.nbr) \/ ~ValidObservation(dataset.X[p][t])
              THEN IsNaN(o.s)
              ELSE IF Lt(o.nbr, base) THEN o.s = 1 ELSE o.s = 0

\* C17: a date whose nir or swir2 value is non-positive has no NBR distance
\* and no decrease flag, whatever its other bands: NBRDist stays undefined
\* and the direction is not 1.
C17_InvalidNbrIsExcluded ==
    DistsBuilt =>
        \A p \in DOMAIN dataset.X : \A t \in 1..Len(dataset.time) :
           (dataset.X[p][t][B(3)] <= 0 \/ dataset.X[p][t][B(5)] <= 0) =>
               (IsNaN(dists.obs[p][t].nd) /\ dists.obs[p][t].s # 1)

\* The Tukey fence Q3 + 1.5 * (Q3 - Q1) of all defined samples of one
\* distance grid of the scene.
SceneFence(field) ==
    LET ps == nanpercentile(dists, field)[0]
    IN IF IsNaN(ps[1]) THEN NaN ELSE (10 * ps[2] - 6 * ps[1]) \div 16

FirstStartDate == ZeroToNaN(Scatter(cube, outlierind, shared.dates))

Grown == pc \in {"hotspots", "returned"} /\ args.growing /\ out.Moderate # << >>

\* region_growing run again on its own output: Severe is the grown mask, the
\* distances, thresholds and start dates are those of the first run.
Regrown ==
    region_growing(cube, [out EXCEPT !.Severe = out.Moderate,
                                     !.StartDate = FirstStartDate])

\* C19: region growing is idempotent on its own output: run again with the
\* Severe mask replaced by the grown (Moderate) mask, on the same distances,
\* thresholds and change dates, it returns a mask with no pixel outside the
\* first grown mask.
C19_GrowingIsIdempotent ==
    Grown =>
        /\ Regrown.raised = "none"
        /\ \A p \in Pixels(cube) :
              Regrown.BurnExtent[p] = 1 => out.Moderate[p] = 1

\* The change dates region_growing swept: the distinct start dates of the
\* assembled result.
SweptDates == {FirstStartDate[p] : p \in Pixels(cube)} \ {NaN}

\* The connected component of the potential mask of change date d that
\* holds pixel p, and whether more than a quarter of it is Severe.
ComponentAt(d, p) ==
    LET P == Potential(cube, TimeIndexAfter(cube, d))
    IN Component(cube, P, {p})

AboveQuarter(region) ==
    4 * Cardinality({q \in region : out.Severe[q] > 0}) > Cardinality(region)

\* C21: at every change date of the sweep, every connected component of the
\* potential mask (the one with the highest label and the only one included)
\* is added to the grown mask when its mean Severe fraction is above 0.25.
C21_EveryComponentIsJudged ==
    Grown =>
        \A d \in SweptDates :
           \A p \in Potential(cube, TimeIndexAfter(cube, d)) :
              AboveQuarter(ComponentAt(d, p)) => out.Moderate[p] = 1

\* ================================================= claims: chunk counts
\* The step at which the task list is handed to map_async.
Submitting == ppc = "start" /\ ppc' = "submitted"

CeilDiv(a, b) == (a + b - 1) \div b

\* C22: the number of chunks submitted to the pool equals n_procs for every
\* N >= n_procs; the remainder of N / n_procs is absorbed by the final chunk
\* and forms no additional chunk.
C22_OneChunkPerWorker ==
    [][(Submitting /\ n >= n_procs) => Cardinality(pending') = n_procs]_vars

\* C22 as amended: for N >= n_procs the number of chunks is
\* ceil(N / (N // n_procs)); it is n_procs exactly when n_procs divides N,
\* and otherwise the remainder forms additional chunks: every chunk has at
\* most N // n_procs indices and all chunks but the last have exactly that
\* many.
C22_ChunkCount ==
    [][(Submitting /\ n >= n_procs) =>
          /\ Cardinality(pending') = CeilDiv(n, n \div n_procs)
          /\ (Cardinality(pending') = n_procs) <=> (n % n_procs = 0)
          /\ Cardinality(pending') >= n_procs
          /\ \A t \in pending' :
                /\ t.hi - t.lo <= n \div n_procs
                /\ (t.hi < n) => (t.hi - t.lo = n \div n_procs)]_vars

\* C22 witness: a task list with more chunks than n_procs, for an N that
\* n_procs does not divide.
C22_Witness ==
    /\ ppc = "submitted" /\ running = {}
    /\ \A i \in 0..(n - 1) : visits[i] = 0
    /\ n >= n_procs /\ n % n_procs # 0
    /\ Cardinality(pending) > n_procs

\* ====================================================== claims: barrier
\* A step that assembles a stage result, ends a stage or starts another one.
StageBoundary ==
    \/ geomed' # geomed \/ dists' # dists \/ outlrs' # outlrs \/ out' # out
    \/ stage' # stage
    \/ (ppc = "submitted" /\ ppc' # "submitted")

\* C23: in every parallel stage the shared output buffers are read into the
\* result only after every submitted chunk task has finished: no result is
\* assembled and no later stage starts while a task is queued or running.
C23_JoinAllBarrier ==
    [][StageBoundary => (pending = {} /\ running = {})]_vars

\* C23 witness: the distance grids assembled from a stage that ran more
\* than one chunk task, after a geomedian stage that did too.
C23_Witness ==
    /\ hpc = "dists" /\ ppc = "joined"
    /\ n >= 2 /\ n_procs >= 2 /\ hargs.n_procs >= 2
    /\ \A i \in 0..(n - 1) : visits[i] = 1

\* ================================================ claims: linked pairs
\* The area, in half units, that the linked pairs of P contribute.
RECURSIVE SumAreas(_)
SumAreas(P) ==
    IF P = {} THEN 0
    ELSE LET p == CHOOSE q \in P : TRUE
         IN ((call.obs[p[2]].c + call.obs[p[1]].c) - 2 * call.CDistoutlier)
               * (call.Time[p[2]] - call.Time[p[1]])
            + SumAreas(P \ {p})

\* The outliers that are followed by a valid observation that is no outlier,
\* and the outlier, if any, that is the last valid observation.
BrokenLinks ==
    {k \in SevOutliers :
        \E j \in (k + 1)..Len(call.obs) :
           /\ SevValid(j) /\ ~SevOutlier(j)
           /\ \A i \in (k + 1)..(j - 1) : ~SevValid(i)}

LastValidOutliers ==
    {k \in SevOutliers : \A j \in (k + 1)..Len(call.obs) : ~SevValid(j)}

\* C24: two outlier time steps form a linked pair iff the very next valid
\* observation after the first is itself an outlier: NaN steps between them
\* do not break the link, a valid non-outlier observation does, and an
\* outlier that is the last valid observation starts no pair. What severity
\* returns is accumulated over exactly those pairs.
C24_LinkIsNextValidObservation ==
    Returned =>
        /\ (ret.duration > 0) <=> (SevLinkedPairs # {})
        /\ ret.sevindex = SumAreas(SevLinkedPairs)
        /\ (SevOutliers \subseteq BrokenLinks \cup LastValidOutliers) =>
               (ret.duration = 0 /\ ret.sevindex = 0)
        /\ \A k, j \in SevOutliers :
              (k + 1 < j /\ SevOutliers = {k, j}
                 /\ \A i \in (k + 1)..(j - 1) : ~SevValid(i)) =>
                    ret.duration = call.Time[j] - call.Time[k]

\* C24 witness: a pair linked across a NaN step whose second outlier is
\* followed by a valid observation that is no outlier.
C24_Witness ==
    /\ Returned
    /\ \E k, j \in SevOutliers :
          /\ k + 1 < j /\ SevLinked(k, j)
          /\ j \in BrokenLinks
          /\ ret.duration = call.Time[j] - call.Time[k]
          /\ ret.sevindex > 0

\* C25: for strictly ascending timestamps the severity index is never
\* negative, and it is strictly positive exactly when the duration is.
C25_IndexPositiveWithDuration ==
    Returned =>
        /\ ret.sevindex >= 0
        /\ (ret.sevindex > 0) <=> (ret.duration > 0)

\* C25 witness: a call that returned a positive duration and index from two
\* linked pairs.
C25_Witness ==
    /\ Returned
    /\ Cardinality(SevLinkedPairs) >= 2
    /\ ret.duration > 0 /\ ret.sevindex > 0

\* ============================================ claims: start dates of growing
\* The sweep as the claims describe it: the change dates in ascending order,
\* the reference date (the most frequent start date, the earliest of them on
\* a tie), the pixels absorbed at a change date, and the coverage after j
\* steps (before the first step: the regions of the reference date that hold
\* a Severe pixel).
SweepOrder == Where(SweptDates)

StartCount(d) == Cardinality({p \in Pixels(cube) : FirstStartDate[p] = d})

ReferenceDate ==
    MinOf({d \in SweptDates : \A o \in SweptDates : StartCount(d) >= StartCount(o)})

SevereSeeds == [p \in Pixels(cube) |-> IF out.Severe[p] > 0 THEN 1 ELSE 0]

SeedFraction(d) ==
    NewPotentialOf(cube, Potential(cube, TimeIndexAfter(cube, d)), SevereSeeds)

Absorbed(d) ==
    {p \in Pixels(cube) : 4 * SeedFraction(d)[p].num > SeedFraction(d)[p].den}

Covered(j) ==
    IF j = 0 THEN {p \in Pixels(cube) : SeedFraction(ReferenceDate)[p].num > 0}
    ELSE UNION {Absorbed(SweepOrder[i]) : i \in 1..j}

Lost(j) == Covered(j - 1) \ Covered(j)

Gained(j) == Covered(j) \ Covered(j - 1)

RECURSIVE DatesAfterStep(_)
DatesAfterStep(j) ==
    IF j = 0
    THEN [p \in Pixels(cube) |-> IF p \in Covered(0) THEN ReferenceDate ELSE 0]
    ELSE LET d == SweepOrder[j]
             before == DatesAfterStep(j - 1)
         IN [p \in Pixels(cube) |->
               IF d < ReferenceDate /\ p \in Lost(j) THEN d
               ELSE IF d >= ReferenceDate /\ p \in Gained(j) THEN d
               ELSE before[p]]

\* C26: in the chronological sweep a change date earlier than the reference
\* date becomes the start date of exactly the pixels that lose coverage at
\* that step, a change date at or after the reference date that of exactly
\* the pixels that gain coverage, and every other pixel keeps its start date.
C26_SweepAssignsStartDates ==
    Grown => out.StartDate = ZeroToNaN(DatesAfterStep(Len(SweepOrder)))

\* C26 witness: a sweep with a step before the reference date at which a
\* pixel loses coverage and a later step at which a pixel gains it.
C26_Witness ==
    /\ Grown
    /\ \E j \in 1..Len(SweepOrder) :
          SweepOrder[j] < ReferenceDate /\ Lost(j) # {}
    /\ \E j \in 1..Len(SweepOrder) :
          /\ SweepOrder[j] >= ReferenceDate /\ Gained(j) # {}
          /\ \E p \in Gained(j) : out.StartDate[p] = SweepOrder[j]

\* ================================================= claims: stage outputs
\* C27: no stage changes the output of an earlier stage: severitymapping
\* and region_growing leave the distance grids and the outlier thresholds
\* unchanged, and region growing changes no field of the severity result
\* other than the start date: Severity, Duration and Severe are the same
\* before and after it.
C27_EarlierOutputsUntouched ==
    [][/\ cube'.dists = cube.dists
       /\ cube'.outlrs = cube.outlrs
       /\ (pc = "growing") =>
             /\ out'.Severity = out.Severity
             /\ out'.Duration = out.Duration
             /\ out'.Severe = out.Severe]_vars

\* C27 witness: region growing has run, has grown a mask that differs from
\* the Severe mask and has replaced start dates.
C27_Witness ==
    /\ Grown
    /\ \E p \in Pixels(cube) : out.Moderate[p] # out.Severe[p]
    /\ \E p \in Pixels(cube) : out.Moderate[p] = 1
    /\ out.StartDate # FirstStartDate

\* C29: after severitymapping with growing enabled every pixel flagged
\* Severe has a defined start date in the returned StartDate grid.
C29_SevereKeepsStartDate ==
    Grown => \A p \in Pixels(cube) :
                out.Severe[p] = 1 => ~IsNaN(out.StartDate[p])

\* ======================================================= claims: period
\* The values of pixel p over the time steps of the period, in time order.
OwnSeries(p, field) ==
    [r \in 1..Len(PeriodSteps(cube, args.period)) |->
        cube.dists.obs[p][PeriodSteps(cube, args.period)[r]][field]]

StrictPeriod == Len(PeriodSteps(cube, args.period)) < Len(cube.dists.time)

\* C28: when the period is a strict sub-range of the time axis of the
\* distance grids, the series handed to the scorer for a pixel consists of
\* that pixel's own cosine distance, NBR distance, NBR and direction at the
\* time steps of the period, in time order, with the timestamps of those
\* steps.
C28_PeriodSeriesIsOwn ==
    (StrictPeriod /\ pc \notin {"call", "returned"}) =>
        /\ pc = "shared"
        /\ shared.t = Take(cube.dists.time, PeriodSteps(cube, args.period))
        /\ \A i \in 0..(Len(outlierind) - 1) :
              /\ shared.CosDist[i] = OwnSeries(outlierind[i + 1], "c")
              /\ shared.NBRDist[i] = OwnSeries(outlierind[i + 1], "nd")
              /\ shared.NBR[i] = OwnSeries(outlierind[i + 1], "nbr")
              /\ shared.ChangeDir[i] = OwnSeries(outlierind[i + 1], "s")

\* ========================================================= claims: NBR
\* C30: for every pair of positive 16-bit values nir and swir2 the NBR that
\* dist_distance uses for the NBR distance and the direction is
\* (nir - swir2) / (nir + swir2), computed without 16-bit wraparound of the
\* sum or of the difference.
C30_NbrWithoutWraparound ==
    (raw.pc = "done") =>
        raw.nbr = (Res * (raw.nir - raw.swir2)) \div (raw.nir + raw.swir2)

====
